---- MODULE Spec2Model ----
(***************************************************************************)
(* Model of rest-competition/postprocess_testconf.py: the rewriting of a   *)
(* RESTest test configuration (operations -> testParameters -> generators).*)
(*                                                                         *)
(* YAML mappings are functions from key strings to values, so an absent    *)
(* key is a key outside DOMAIN.  Strings the program only compares (type,  *)
(* in, genParameters names) are TLA+ strings; strings it takes apart or    *)
(* builds (method, testPath, parameter names, side-file paths) are         *)
(* sequences of one-character strings.                                     *)
(***************************************************************************)
EXTENDS Integers, Sequences, FiniteSets, TLC

VARIABLES
    inputFile,      \* the file at args.input_file: <<>> (no such file) or <<document>>
    pc,             \* position of main()
    data,           \* the loaded document, mutated in place
    opIdx,          \* index of the operation the for loop of line 20 is at
    outputFiles,    \* the documents written to modified_<basename>, in order
    calls           \* direct calls of the helper: the parameter before and after each

vars == <<inputFile, pc, data, opIdx, outputFiles, calls>>

-----------------------------------------------------------------------------
(* Bounds of the enumerated inputs *)

MaxOps == 2
MaxParams == 2
MaxGens == 2
MaxCalls == 2

-----------------------------------------------------------------------------
(* Strings: str.lower, str.replace, the `in` operator, f-strings *)

(* the upper-case letters that occur in Methods and Names *)
LowerChar(c) ==
    CASE c = "P" -> "p" [] c = "U" -> "u" [] c = "T" -> "t"
      [] c = "D" -> "d" [] c = "E" -> "e" [] c = "L" -> "l"
      [] c = "I" -> "i" [] c = "C" -> "c"
      [] OTHER -> c

Lower(s) == [i \in 1..Len(s) |-> LowerChar(s[i])]

Replace(s, old, new) == [i \in 1..Len(s) |-> IF s[i] = old THEN new ELSE s[i]]

Contains(sub, s) ==
    \E i \in 0..(Len(s) - Len(sub)) : SubSeq(s, i + 1, i + Len(sub)) = sub

Prefix == <<"t", "o", "o", "l", "/", "L", "L", "M", "_", "R", "T", "/">>

CsvPath(method, test_path, param_name) ==
    Prefix \o method \o <<"_">> \o test_path \o <<"_">> \o param_name
        \o <<".", "c", "s", "v">>

JsonPath(method, test_path) ==
    Prefix \o method \o <<"_">> \o test_path
        \o <<"_", "b", "o", "d", "y", ".", "j", "s", "o", "n">>

MutatingMethods ==
    { <<"p", "u", "t">>, <<"p", "a", "t", "c", "h">>, <<"d", "e", "l", "e", "t", "e">> }

-----------------------------------------------------------------------------
(* Mappings and exceptions *)

Has(m, k) == k \in DOMAIN m

SetKey(m, k, v) == [x \in DOMAIN m \cup {k} |-> IF x = k THEN v ELSE m[x]]

Keep(m, ks) == [x \in ks |-> m[x]]

Ok(v) == [raised |-> FALSE, value |-> v]

KeyError(v) == [raised |-> TRUE, value |-> v]

(* operation['testParameters'] is a list or None *)
YamlNone == [isNone |-> TRUE, items |-> <<>>]

YamlList(items) == [isNone |-> FALSE, items |-> items]

Truthy(v) == ~v.isNone /\ v.items # <<>>

-----------------------------------------------------------------------------
(* The generators the program builds *)

ParameterGenerator ==
    [type |-> "ParameterGenerator", genParameters |-> <<>>, valid |-> TRUE]

RandomInputValue(csv_path) ==
    [type |-> "RandomInputValue",
     genParameters |-> << [name |-> "csv", values |-> <<csv_path>>] >>,
     valid |-> TRUE]

ObjectPerturbator(json_path) ==
    [type |-> "ObjectPerturbator",
     genParameters |-> << [name |-> "file", values |-> <<json_path>>] >>,
     valid |-> TRUE]

-----------------------------------------------------------------------------
(* The documents the input file may hold *)

GenPool ==
    { [type |-> "RandomBoolean", genParameters |-> <<>>, valid |-> TRUE],
      [type |-> "ParameterGenerator", genParameters |-> <<>>, valid |-> FALSE],
      [type |-> "OldGen",
       genParameters |-> << [name |-> "seed", values |-> << <<"7">> >>] >>,
       valid |-> FALSE] }

GeneratorLists == UNION { [1..n -> GenPool] : n \in 0..MaxGens }

Names == { <<"u", "I", "d">>, <<"C", "o", "d", "e">>, <<"c", "o", "d">>, <<"n", "m">> }

Ins == { "body", "query" }

Parameters ==
    { [name |-> n, in |-> i, generators |-> g] :
        n \in Names, i \in Ins, g \in GeneratorLists }
    \cup { [name |-> n, in |-> i] : n \in Names, i \in Ins }

PlainParameter ==
    [name |-> <<"q">>, in |-> "query",
     generators |-> << [type |-> "OldGen", genParameters |-> <<>>, valid |-> TRUE] >>]

(* lists of up to MaxParams parameters: one drawn from Parameters, the others plain *)
ParameterLists ==
    { [k \in 1..n |-> IF k = at THEN p ELSE PlainParameter] :
        n \in 1..MaxParams, at \in 1..MaxParams, p \in Parameters }

TestParameters == { YamlNone, YamlList(<<>>) } \cup { YamlList(l) : l \in ParameterLists }

Methods == { <<"P", "U", "T">>, <<"D", "e", "l", "e", "t", "e">>, <<"g", "e", "t">> }

TestPaths == { <<"/", "u", "/", "{", "i", "d", "}">> }

AllOperationKeys == {"method", "testPath", "testParameters"}

(* an operation has every key, or lacks one of them *)
OperationKeys == { AllOperationKeys } \cup { AllOperationKeys \ {k} : k \in AllOperationKeys }

Operation(m, t, tp, ks) ==
    Keep([method |-> m, testPath |-> t, testParameters |-> tp], ks)

PlainOperation ==
    [method |-> <<"g", "e", "t">>, testPath |-> <<"/", "u">>,
     testParameters |-> YamlList(<<PlainParameter>>)]

(* a list of n operations: the given one at one place, the others plain *)
OperationList(n, at, op) == [k \in 1..n |-> IF k = at THEN op ELSE PlainOperation]

EmptyMapping == [x \in {} |-> TRUE]

Document(ops) == [testConfiguration |-> [operations |-> ops]]

(* the input file: absent, or a document *)
InputFiles(file) ==
    \/ file = <<>>
    \/ file = << EmptyMapping >>
    \/ file = << [testConfiguration |-> EmptyMapping] >>
    \/ file = << Document(<<>>) >>
    \/ \E n \in 1..MaxOps, m \in Methods, t \in TestPaths, ks \in OperationKeys,
          tp \in TestParameters :
          \E at \in 1..n :
              file = << Document(OperationList(n, at, Operation(m, t, tp, ks))) >>

-----------------------------------------------------------------------------
(* The helper, lines 84-90 *)

HasParameterGenerator(generators) ==
    \E i \in 1..Len(generators) : generators[i].type = "ParameterGenerator"

(* variant: the new entry is put first *)
add_parameter_generator_at_front(param) ==
    IF ~HasParameterGenerator(param.generators)
    THEN [param EXCEPT !.generators = <<ParameterGenerator>> \o param.generators]
    ELSE param

(* variant: the entry is added without looking for one *)
add_parameter_generator_always(param) ==
    [param EXCEPT !.generators = Append(param.generators, ParameterGenerator)]

add_parameter_generator_if_not_present(param) ==
    IF ~HasParameterGenerator(param.generators)
    THEN [param EXCEPT !.generators = Append(param.generators, ParameterGenerator)]
    ELSE param

-----------------------------------------------------------------------------
(* The body of the loop over operations, lines 21-74.  Each step yields    *)
(* Ok(value) or, where the code reads a key the mapping lacks,             *)
(* KeyError(value as mutated so far).                                      *)

(* variant: only an absent key skips *)
SkipOnlyAbsent(operation) == ~Has(operation, "testParameters")

Skip(operation) ==
    ~(Has(operation, "testParameters") /\ Truthy(operation.testParameters))

(* variant: the method as written *)
MethodAsWritten(operation) == operation.method

(* line 23 *)
MethodLower(operation) == Lower(operation.method)

(* line 24 *)
TestPathKey(testPath) ==
    Replace(Replace(Replace(testPath, "/", "_"), "{", "_"), "}", "_")

(* Case 1, lines 27-29 *)
CaseOne(method, operation) ==
    IF method \in MutatingMethods /\ Truthy(operation.testParameters)
    THEN LET first_param == operation.testParameters.items[1]
         IN  IF ~Has(first_param, "generators")
             THEN KeyError(operation)
             ELSE Ok([operation EXCEPT !.testParameters.items[1] =
                        add_parameter_generator_if_not_present(first_param)])
    ELSE Ok(operation)

(* variant: only RandomBoolean entries are kept *)
CaseTwoOnlyBoolean(method, test_path, param) ==
    IF param.in # "body"
    THEN IF ~Has(param, "generators")
         THEN KeyError(param)
         ELSE LET new_generator ==
                      RandomInputValue(CsvPath(method, test_path, param.name))
                  gens == param.generators
              IN  Ok([param EXCEPT !.generators =
                        [i \in 1..Len(gens) |->
                            IF gens[i].type # "RandomBoolean"
                            THEN new_generator
                            ELSE gens[i]]])
    ELSE Ok(param)

(* variant: the generators are read before `in` is looked at *)
CaseTwoReadsFirst(method, test_path, param) ==
    IF ~Has(param, "generators")
    THEN KeyError(param)
    ELSE IF param.in # "body"
         THEN LET new_generator ==
                      RandomInputValue(CsvPath(method, test_path, param.name))
                  gens == param.generators
              IN  Ok([param EXCEPT !.generators =
                        [i \in 1..Len(gens) |->
                            IF gens[i].type \notin {"RandomBoolean", "ParameterGenerator"}
                            THEN new_generator
                            ELSE gens[i]]])
         ELSE Ok(param)

(* Case 2, lines 35-51 *)
CaseTwo(method, test_path, param) ==
    IF param.in # "body"
    THEN IF ~Has(param, "generators")
         THEN KeyError(param)
         ELSE LET new_generator ==
                      RandomInputValue(CsvPath(method, test_path, param.name))
                  gens == param.generators
              IN  Ok([param EXCEPT !.generators =
                        [i \in 1..Len(gens) |->
                            IF gens[i].type \notin {"RandomBoolean", "ParameterGenerator"}
                            THEN new_generator
                            ELSE gens[i]]])
    ELSE Ok(param)

(* variant: the name is matched as written *)
CaseFourCaseSensitive(param) ==
    IF Contains(<<"i", "d">>, param.name) \/ Contains(<<"c", "o", "d", "e">>, param.name)
    THEN IF ~Has(param, "generators")
         THEN KeyError(param)
         ELSE Ok(add_parameter_generator_if_not_present(param))
    ELSE Ok(param)

(* Case 4, lines 58-59 *)
CaseFour(param) ==
    IF Contains(<<"i", "d">>, Lower(param.name))
       \/ Contains(<<"c", "o", "d", "e">>, Lower(param.name))
    THEN IF ~Has(param, "generators")
         THEN KeyError(param)
         ELSE Ok(add_parameter_generator_if_not_present(param))
    ELSE Ok(param)

(* Case 5, lines 62-74 *)
CaseFive(method, test_path, param) ==
    IF param.in = "body"
    THEN SetKey(param, "generators", << ObjectPerturbator(JsonPath(method, test_path)) >>)
    ELSE param

(* variant: case 5 runs before case 4 *)
ParameterBodyFourLast(method, test_path, param) ==
    LET two == CaseTwo(method, test_path, param)
    IN  IF two.raised
        THEN two
        ELSE CaseFour(CaseFive(method, test_path, two.value))

(* one pass of the loop over the parameters, lines 31-74 *)
ParameterBody(method, test_path, param) ==
    LET two == CaseTwo(method, test_path, param)
    IN  IF two.raised
        THEN two
        ELSE LET four == CaseFour(two.value)
             IN  IF four.raised
                 THEN four
                 ELSE Ok(CaseFive(method, test_path, four.value))

(* the loop over the parameters from the k-th on, line 30 *)
RECURSIVE ForParameters(_, _, _, _)
ForParameters(method, test_path, params, k) ==
    IF k > Len(params)
    THEN Ok(params)
    ELSE LET r == ParameterBody(method, test_path, params[k])
             next == [params EXCEPT ![k] = r.value]
         IN  IF r.raised
             THEN KeyError(next)
             ELSE ForParameters(method, test_path, next, k + 1)

(* lines 23-74, for an operation that is not skipped *)
LoopBody(operation) ==
    IF ~(Has(operation, "method") /\ Has(operation, "testPath"))
    THEN KeyError(operation)
    ELSE LET method == MethodLower(operation)
             test_path == TestPathKey(operation.testPath)
             one == CaseOne(method, operation)
         IN  IF one.raised
             THEN one
             ELSE LET r == ForParameters(method, test_path,
                                         one.value.testParameters.items, 1)
                  IN  [raised |-> r.raised,
                       value |-> [one.value EXCEPT !.testParameters.items = r.value]]

-----------------------------------------------------------------------------
(* main(), lines 5-81 *)

Init ==
    /\ InputFiles(inputFile)
    /\ pc = "start"
    /\ data = EmptyMapping
    /\ opIdx = 0
    /\ outputFiles = <<>>
    /\ calls = <<>>

(* lines 11-13: the input file does not exist *)
InputFileMissing ==
    /\ pc = "start"
    /\ inputFile = <<>>
    /\ pc' = "returned"
    /\ UNCHANGED <<inputFile, data, opIdx, outputFiles, calls>>

(* lines 16-17 *)
LoadYaml ==
    /\ pc = "start"
    /\ inputFile # <<>>
    /\ data' = inputFile[1]
    /\ pc' = "loaded"
    /\ UNCHANGED <<inputFile, opIdx, outputFiles, calls>>

(* line 20: data['testConfiguration']['operations'] *)
EnterLoop ==
    /\ pc = "loaded"
    /\ Has(data, "testConfiguration")
    /\ Has(data.testConfiguration, "operations")
    /\ pc' = "for"
    /\ opIdx' = 1
    /\ UNCHANGED <<inputFile, data, outputFiles, calls>>

EnterLoopKeyError ==
    /\ pc = "loaded"
    /\ ~(Has(data, "testConfiguration") /\ Has(data.testConfiguration, "operations"))
    /\ pc' = "raised"
    /\ UNCHANGED <<inputFile, data, opIdx, outputFiles, calls>>

(* lines 21-22 *)
SkipOperation ==
    /\ pc = "for"
    /\ opIdx <= Len(data.testConfiguration.operations)
    /\ Skip(data.testConfiguration.operations[opIdx])
    /\ opIdx' = opIdx + 1
    /\ UNCHANGED <<inputFile, pc, data, outputFiles, calls>>

(* lines 23-74 *)
TransformOperation ==
    /\ pc = "for"
    /\ opIdx <= Len(data.testConfiguration.operations)
    /\ ~Skip(data.testConfiguration.operations[opIdx])
    /\ LET r == LoopBody(data.testConfiguration.operations[opIdx])
       IN  /\ ~r.raised
           /\ data' = [data EXCEPT !.testConfiguration.operations[opIdx] = r.value]
    /\ opIdx' = opIdx + 1
    /\ UNCHANGED <<inputFile, pc, outputFiles, calls>>

OperationKeyError ==
    /\ pc = "for"
    /\ opIdx <= Len(data.testConfiguration.operations)
    /\ ~Skip(data.testConfiguration.operations[opIdx])
    /\ LET r == LoopBody(data.testConfiguration.operations[opIdx])
       IN  /\ r.raised
           /\ data' = [data EXCEPT !.testConfiguration.operations[opIdx] = r.value]
    /\ pc' = "raised"
    /\ UNCHANGED <<inputFile, opIdx, outputFiles, calls>>

(* variant: the file is written from inside the loop *)
WriteOutputEarly ==
    /\ pc = "for"
    /\ outputFiles' = Append(outputFiles, data)
    /\ pc' = "done"
    /\ UNCHANGED <<inputFile, data, opIdx, calls>>

(* lines 77-81; yaml.dump writes the mappings and lists of data, so the    *)
(* file is recorded as the document it holds                               *)
WriteOutput ==
    /\ pc = "for"
    /\ opIdx > Len(data.testConfiguration.operations)
    /\ outputFiles' = Append(outputFiles, data)
    /\ pc' = "done"
    /\ UNCHANGED <<inputFile, data, opIdx, calls>>

Next ==
    \/ InputFileMissing
    \/ LoadYaml
    \/ EnterLoop
    \/ EnterLoopKeyError
    \/ SkipOperation
    \/ TransformOperation
    \/ OperationKeyError
    \/ WriteOutput

Spec == Init /\ [][Next]_vars

-----------------------------------------------------------------------------
(* The helper called directly, MaxCalls times in a row on one parameter *)

InitHelper ==
    /\ calls \in { <<p>> : p \in { q \in Parameters : Has(q, "generators") } }
    /\ inputFile = <<>>
    /\ pc = "helper"
    /\ data = EmptyMapping
    /\ opIdx = 0
    /\ outputFiles = <<>>

CallHelper ==
    /\ pc = "helper"
    /\ Len(calls) <= MaxCalls
    /\ calls' = Append(calls, add_parameter_generator_if_not_present(calls[Len(calls)]))
    /\ UNCHANGED <<inputFile, pc, data, opIdx, outputFiles>>

NextHelper == CallHelper

SpecHelper == InitHelper /\ [][NextHelper]_vars

-----------------------------------------------------------------------------
(* What the properties below speak of: the document read, the document     *)
(* written, and the values the specification of the program names.         *)

Finished == pc = "done"

InOps == inputFile[1].testConfiguration.operations

OutOps == outputFiles[1].testConfiguration.operations

(* the operation has a testParameters list with at least one entry *)
NonEmptyTestParameters(op) ==
    /\ "testParameters" \in DOMAIN op
    /\ ~op.testParameters.isNone
    /\ Len(op.testParameters.items) > 0

OpsWithParameters == { k \in 1..Len(InOps) : NonEmptyTestParameters(InOps[k]) }

ParamsOf(k) == 1..Len(InOps[k].testParameters.items)

InParam(k, j) == InOps[k].testParameters.items[j]

OutParam(k, j) == OutOps[k].testParameters.items[j]

MethodLowercased(op) ==
    IF op.method = <<"P", "U", "T">> THEN <<"p", "u", "t">>
    ELSE IF op.method = <<"D", "e", "l", "e", "t", "e">> THEN <<"d", "e", "l", "e", "t", "e">>
    ELSE op.method

IsPutPatchDelete(op) ==
    MethodLowercased(op) \in
        { <<"p", "u", "t">>, <<"p", "a", "t", "c", "h">>, <<"d", "e", "l", "e", "t", "e">> }

(* testPath with every '/', '{' and '}' replaced by '_' *)
PathKeyOf(op) ==
    [i \in 1..Len(op.testPath) |->
        IF op.testPath[i] \in {"/", "{", "}"} THEN "_" ELSE op.testPath[i]]

(* tool/LLM_RT/<method lowercased>_<testPathKey>_<last> *)
SideFile(op, last) ==
    <<"t", "o", "o", "l", "/", "L", "L", "M", "_", "R", "T", "/">>
        \o MethodLowercased(op) \o <<"_">> \o PathKeyOf(op) \o <<"_">> \o last

(* the name contains "id" or "code", whatever the case of its letters *)
MentionsIdOrCode(name) ==
    \/ \E i \in 1..(Len(name) - 1) :
          name[i] \in {"i", "I"} /\ name[i + 1] \in {"d", "D"}
    \/ \E i \in 1..(Len(name) - 3) :
          /\ name[i] \in {"c", "C"}
          /\ name[i + 1] \in {"o", "O"}
          /\ name[i + 2] \in {"d", "D"}
          /\ name[i + 3] \in {"e", "E"}

CountPG(generators) ==
    Cardinality({ i \in 1..Len(generators) : generators[i].type = "ParameterGenerator" })

Exempt(gen) == gen.type \in {"RandomBoolean", "ParameterGenerator"}

AppendedEntry == [type |-> "ParameterGenerator", genParameters |-> <<>>, valid |-> TRUE]

-----------------------------------------------------------------------------
(* C1: in an operation with non-empty testParameters, the written          *)
(* generator list of every body parameter is exactly the one               *)
(* ObjectPerturbator entry naming                                          *)
(* tool/LLM_RT/<method lowercased>_<testPathKey>_body.json, whatever the   *)
(* read list held and whether or not case 1 or case 4 appended to it.      *)
C1_BodyReplacedWholesale ==
    Finished =>
        \A k \in OpsWithParameters : \A j \in ParamsOf(k) :
            InParam(k, j).in = "body" =>
                OutParam(k, j).generators =
                    << [type |-> "ObjectPerturbator",
                        genParameters |->
                            << [name |-> "file",
                                values |-> << SideFile(InOps[k],
                                    <<"b", "o", "d", "y", ".", "j", "s", "o", "n">>) >>] >>,
                        valid |-> TRUE] >>

(* a body parameter named uId, first of a PUT operation, whose list held two entries *)
C1_Witness ==
    /\ Finished
    /\ \E k \in OpsWithParameters :
          /\ InOps[k].method = <<"P", "U", "T">>
          /\ InParam(k, 1).in = "body"
          /\ InParam(k, 1).name = <<"u", "I", "d">>
          /\ "generators" \in DOMAIN InParam(k, 1)
          /\ Len(InParam(k, 1).generators) = 2
          /\ InParam(k, 1).generators[1].type = "OldGen"
          /\ Len(OutParam(k, 1).generators) = 1

-----------------------------------------------------------------------------
(* C2, as stated: the written generator list of every non-body parameter   *)
(* has exactly the length and order of the list read.                      *)
C2_SameLengthAndOrder ==
    Finished =>
        \A k \in OpsWithParameters : \A j \in ParamsOf(k) :
            InParam(k, j).in # "body" =>
                /\ Len(OutParam(k, j).generators) = Len(InParam(k, j).generators)
                /\ \A i \in 1..Len(InParam(k, j).generators) :
                      Exempt(InParam(k, j).generators[i]) =>
                          OutParam(k, j).generators[i] = InParam(k, j).generators[i]

(* C2, amended: the written generator list of every non-body parameter     *)
(* holds the entries of the list read at the same places, RandomBoolean    *)
(* and ParameterGenerator entries unchanged, followed by at most one more  *)
(* entry, which is a ParameterGenerator added to a list that had none.     *)
C2_OrderKeptAtMostOneAppended ==
    Finished =>
        \A k \in OpsWithParameters : \A j \in ParamsOf(k) :
            InParam(k, j).in # "body" =>
                LET in == InParam(k, j).generators
                    out == OutParam(k, j).generators
                IN  /\ Len(out) \in { Len(in), Len(in) + 1 }
                    /\ \A i \in 1..Len(in) :
                          /\ Exempt(in[i]) => out[i] = in[i]
                          /\ ~Exempt(in[i]) => ~Exempt(out[i])
                    /\ Len(out) = Len(in) + 1 =>
                          /\ out[Len(out)].type = "ParameterGenerator"
                          /\ CountPG(in) = 0

(* a non-body parameter whose list RandomBoolean, OldGen grew by one entry *)
C2_Witness ==
    /\ Finished
    /\ \E k \in OpsWithParameters : \E j \in ParamsOf(k) :
          /\ InParam(k, j).in # "body"
          /\ Len(InParam(k, j).generators) = 2
          /\ InParam(k, j).generators[1].type = "RandomBoolean"
          /\ InParam(k, j).generators[2].type = "OldGen"
          /\ Len(OutParam(k, j).generators) = 3

-----------------------------------------------------------------------------
(* C3, as stated: every written generator list holds at most one           *)
(* ParameterGenerator entry.                                               *)
C3_AtMostOneParameterGenerator ==
    Finished =>
        \A k \in OpsWithParameters : \A j \in ParamsOf(k) :
            CountPG(OutParam(k, j).generators) <= 1

(* C3, amended: a written generator list holds at most one                 *)
(* ParameterGenerator entry unless the list read already held several: a   *)
(* non-body list keeps every ParameterGenerator entry it had, and an entry *)
(* is added only to a list that has none.                                  *)
C3_NoDuplicateAdded ==
    Finished =>
        \A k \in OpsWithParameters : \A j \in ParamsOf(k) :
            LET before == IF "generators" \in DOMAIN InParam(k, j)
                          THEN CountPG(InParam(k, j).generators)
                          ELSE 0
                after == CountPG(OutParam(k, j).generators)
            IN  /\ after <= IF before > 1 THEN before ELSE 1
                /\ InParam(k, j).in # "body" => after >= before

(* a list read with two ParameterGenerator entries is written with both *)
C3_Witness ==
    /\ Finished
    /\ \E k \in OpsWithParameters : \E j \in ParamsOf(k) :
          /\ InParam(k, j).in # "body"
          /\ InParam(k, j).name = <<"u", "I", "d">>
          /\ CountPG(InParam(k, j).generators) = 2
          /\ CountPG(OutParam(k, j).generators) = 2

-----------------------------------------------------------------------------
-----------------------------------------------------------------------------
(* C5: in a put, patch or delete operation with non-empty testParameters,  *)
(* the written list of the first parameter holds a ParameterGenerator      *)
(* entry exactly when the parameter is not a body parameter; when it is,   *)
(* the list is the ObjectPerturbator entry alone.                          *)
C5_FirstParameterSeeded ==
    Finished =>
        \A k \in OpsWithParameters :
            IsPutPatchDelete(InOps[k]) =>
                /\ CountPG(OutParam(k, 1).generators) > 0 <=> InParam(k, 1).in # "body"
                /\ InParam(k, 1).in = "body" =>
                      /\ Len(OutParam(k, 1).generators) = 1
                      /\ OutParam(k, 1).generators[1].type = "ObjectPerturbator"

(* a PUT operation whose first parameter is a body parameter that held a ParameterGenerator *)
C5_Witness ==
    /\ Finished
    /\ \E k \in OpsWithParameters :
          /\ InOps[k].method = <<"P", "U", "T">>
          /\ InParam(k, 1).in = "body"
          /\ InParam(k, 1).name = <<"n", "m">>
          /\ "generators" \in DOMAIN InParam(k, 1)
          /\ CountPG(InParam(k, 1).generators) = 1
          /\ CountPG(OutParam(k, 1).generators) = 0

-----------------------------------------------------------------------------
(* C6: an operation whose testParameters key is absent, null or an empty   *)
(* list is skipped, whatever its method: it is written as it was read, and *)
(* the run never fails at it.                                              *)
C6_SkippedOperationUnchanged ==
    /\ Finished =>
          \A k \in 1..Len(InOps) :
              ~NonEmptyTestParameters(InOps[k]) => OutOps[k] = InOps[k]
    /\ (pc = "raised" /\ opIdx >= 1) => NonEmptyTestParameters(InOps[opIdx])

(* an operation with no method and a null or empty testParameters, written after a run *)
C6_Witness ==
    /\ Finished
    /\ Len(InOps) >= 2
    /\ \E k \in 1..Len(InOps) :
          /\ "method" \notin DOMAIN InOps[k]
          /\ "testParameters" \in DOMAIN InOps[k]
          /\ ~NonEmptyTestParameters(InOps[k])
          /\ OutOps[k] = InOps[k]

-----------------------------------------------------------------------------
(* the document lacks one of the keys named required *)
LacksRequiredKey(doc) ==
    \/ "testConfiguration" \notin DOMAIN doc
    \/ "operations" \notin DOMAIN doc.testConfiguration
    \/ \E k \in 1..Len(doc.testConfiguration.operations) :
          LET op == doc.testConfiguration.operations[k]
          IN  \/ "method" \notin DOMAIN op
              \/ "testPath" \notin DOMAIN op
              \/ /\ "testParameters" \in DOMAIN op
                 /\ \E j \in 1..Len(op.testParameters.items) :
                       "generators" \notin DOMAIN op.testParameters.items[j]

(* the traversal reads a key the document lacks *)
ReadsMissingKey(doc) ==
    \/ "testConfiguration" \notin DOMAIN doc
    \/ "operations" \notin DOMAIN doc.testConfiguration
    \/ \E k \in 1..Len(doc.testConfiguration.operations) :
          LET op == doc.testConfiguration.operations[k]
          IN  /\ NonEmptyTestParameters(op)
              /\ \/ "method" \notin DOMAIN op
                 \/ "testPath" \notin DOMAIN op
                 \/ \E j \in 1..Len(op.testParameters.items) :
                       LET param == op.testParameters.items[j]
                       IN  /\ "generators" \notin DOMAIN param
                           /\ \/ param.in # "body"
                              \/ MentionsIdOrCode(param.name)
                              \/ j = 1 /\ IsPutPatchDelete(op)

(* C7, as stated: a document that lacks a required key never gets to the   *)
(* end of the run.                                                         *)
C7_MissingKeyAlwaysFails ==
    Finished => ~LacksRequiredKey(inputFile[1])

(* C7, amended: the run of an existing input file fails with the error     *)
(* exactly when the traversal reads an absent key: testConfiguration or    *)
(* operations; method or testPath of an operation with non-empty           *)
(* testParameters; generators of a parameter of such an operation that is  *)
(* not a body parameter, or whose name contains id or code, or that is the *)
(* first parameter of a put, patch or delete operation.                    *)
C7_FailsExactlyWhenKeyRead ==
    /\ pc = "raised" => ReadsMissingKey(inputFile[1])
    /\ Finished => ~ReadsMissingKey(inputFile[1])

(* the run has failed in its second operation at a body parameter named Code without generators *)
C7_Witness ==
    /\ pc = "raised"
    /\ opIdx = 2
    /\ "method" \in DOMAIN InOps[2]
    /\ "testPath" \in DOMAIN InOps[2]
    /\ ~IsPutPatchDelete(InOps[2])
    /\ \E j \in 1..Len(InOps[2].testParameters.items) :
          LET param == InOps[2].testParameters.items[j]
          IN  /\ param.in = "body"
              /\ param.name = <<"C", "o", "d", "e">>
              /\ "generators" \notin DOMAIN param

-----------------------------------------------------------------------------
(* C8: the output file is written once, after the last operation has been  *)
(* traversed without error; a run whose input file does not exist returns  *)
(* without raising and writes nothing; a run that raises writes nothing.   *)
C8_WrittenOnlyAfterTraversal ==
    /\ outputFiles # <<>> =>
          /\ pc = "done"
          /\ Len(outputFiles) = 1
          /\ opIdx = Len(data.testConfiguration.operations) + 1
          /\ outputFiles[1] = data
    /\ pc \in {"returned", "raised"} => outputFiles = <<>>
    /\ inputFile = <<>> => pc \in {"start", "returned"}
    /\ pc = "returned" => inputFile = <<>>

(* the run has failed in its second operation, the first already rewritten, and no file is written *)
C8_Witness ==
    /\ pc = "raised"
    /\ opIdx = 2
    /\ data.testConfiguration.operations[1] # InOps[1]
    /\ outputFiles = <<>>

-----------------------------------------------------------------------------
(* the parameter as it was before the first call, and after the n-th *)
BeforeCalls == calls[1].generators

AfterCall(n) == calls[n + 1].generators

(* C9, as stated: after two calls on the same parameter its list holds     *)
(* exactly one ParameterGenerator entry.                                   *)
C9_ExactlyOneAfterTwoCalls ==
    Len(calls) >= 3 => CountPG(AfterCall(2)) = 1

(* C9, amended: after two calls on the same parameter its list holds       *)
(* exactly one ParameterGenerator entry if it held at most one before, and *)
(* as many as before otherwise; the entries it held keep their places, at  *)
(* most one entry is added after them, and the second call and every later *)
(* one leave the list as the first call left it.                           *)
C9_SeedingIdempotent ==
    Len(calls) >= 3 =>
        /\ CountPG(AfterCall(2)) =
              IF CountPG(BeforeCalls) > 1 THEN CountPG(BeforeCalls) ELSE 1
        /\ \A n \in 1..(Len(calls) - 1) :
              /\ SubSeq(AfterCall(n), 1, Len(BeforeCalls)) = BeforeCalls
              /\ Len(AfterCall(n)) <= Len(BeforeCalls) + 1
              /\ calls[n + 1] = calls[2]

(* two calls on a parameter whose list RandomBoolean, OldGen had no ParameterGenerator *)
C9_Witness ==
    /\ Len(calls) = 3
    /\ Len(BeforeCalls) = 2
    /\ BeforeCalls[1].type = "RandomBoolean"
    /\ BeforeCalls[2].type = "OldGen"
    /\ Len(AfterCall(1)) = 3
    /\ Len(AfterCall(2)) = 3

-----------------------------------------------------------------------------
(* C10: for a non-body parameter whose list read has no ParameterGenerator *)
(* entry, the list written has the entry {ParameterGenerator, [], true}    *)
(* appended as its last and only such entry exactly when the name contains *)
(* id or code in any case or the parameter is the first of a put, patch or *)
(* delete operation; otherwise the two lists have the same length.         *)
C10_AppendedExactlyWhenSeeded ==
    Finished =>
        \A k \in OpsWithParameters : \A j \in ParamsOf(k) :
            (InParam(k, j).in # "body" /\ CountPG(InParam(k, j).generators) = 0) =>
                LET before == InParam(k, j).generators
                    after == OutParam(k, j).generators
                IN  IF \/ MentionsIdOrCode(InParam(k, j).name)
                       \/ j = 1 /\ IsPutPatchDelete(InOps[k])
                    THEN /\ Len(after) = Len(before) + 1
                         /\ after[Len(after)] = AppendedEntry
                         /\ CountPG(after) = 1
                    ELSE /\ Len(after) = Len(before)
                         /\ CountPG(after) = 0

(* the second parameter of a get operation, named Code, gets the entry appended *)
C10_Witness ==
    /\ Finished
    /\ \E k \in OpsWithParameters :
          /\ InOps[k].method = <<"g", "e", "t">>
          /\ Len(InOps[k].testParameters.items) >= 2
          /\ InParam(k, 2).in # "body"
          /\ InParam(k, 2).name = <<"C", "o", "d", "e">>
          /\ Len(InParam(k, 2).generators) = 1
          /\ CountPG(InParam(k, 2).generators) = 0
          /\ OutParam(k, 2).generators[2] = AppendedEntry

====
